---------------------------- MODULE Spec2Model ----------------------------
(***************************************************************************)
(* PharmaFirst: the UTI triage state machine (lib/triage/stateMachine.ts), *)
(* the escalation policy and the transcript extractor                      *)
(* (workers/triage/uti.ts), the voice agent that drives them               *)
(* (workers/voice/livekit-agent.ts) and the pharmacist's approval endpoint *)
(* (app/api/consultations/approve/route.ts).                               *)
(***************************************************************************)
EXTENDS Integers, Sequences, FiniteSets, TLC

VARIABLES
    created,      \* the initialContext the machine was created with
    context,      \* UTITriageStateMachine.context
    op,           \* the operation performed by the last step
    lastEvent,    \* the event handed to the last processEvent call
    prev,         \* the context as it was before the last operation
    visited,      \* history: the states this session was in before the last processEvent call returned
    happy,        \* history: progress of the delivered events along the happy path
    redFlagSeen,  \* history: a well-formed RED_FLAG_DETECTED was delivered in a non-terminal state
    rewind,       \* history: progress of the delivered events along a re-traversal after a rewind
    returned,     \* what the last call on the machine returned to its caller
    snapshot,     \* a context object the machine returned, as its caller holds it
    other,        \* the context of a second machine, created with the same argument
    assessIn,     \* the arguments of the assessUTISymptoms call under study
    assessOut,    \* what that call returned
    extraction,   \* a transcript and what the extractSymptomsFromTranscript calls on it returned
    agent,        \* GeminiVoiceAgent.state (AgentState)
    callSession,  \* the call's row in db.callSession
    attempt,      \* a triage attempt: the condition it is for, and what processUTITriage made of it
    changes,      \* history: the state changes the processEvent calls of a caller that counts them made
    approval      \* a POST /api/consultations/approve request: its inputs, its position, what it wrote

machineVars == <<created, context, op, lastEvent, prev, visited, happy, redFlagSeen, rewind, returned>>

assessVars == <<assessIn, assessOut, extraction>>

callVars == <<agent, callSession, attempt>>

callerVars == <<snapshot, other>>

vars == <<machineVars, assessVars, callVars, callerVars, changes, approval>>

\* JavaScript's undefined: an absent optional field, a missing payload field.
Undefined == "undefined"

\* ---------------------------------------------------------------- bounds

\* The longest symptoms list a session collects.
MaxSymptoms == 2

\* The longest symptoms argument of an assessment.
MaxSymptomEntries == 2

\* The longest redFlags argument of an assessment.
MaxRedFlagEntries == 2

\* The longest transcript a call collects.
MaxTranscript == 3

\* The most calls of the extractor on one transcript.
MaxExtractions == 2

\* ------------------------------------------------------------ data types

TriageStates ==
    {"INITIAL", "IDENTITY_VERIFICATION", "SYMPTOM_ASSESSMENT", "RED_FLAG_CHECK",
     "FOLLOW_UP_SELECTION", "DELIVERY_OPTIONS", "CONFIRMATION", "ESCALATED",
     "COMPLETED"}

TerminalStates == {"ESCALATED", "COMPLETED"}

NonTerminalStates == TriageStates \ TerminalStates

FollowUpOptions == {"PHONE_CALL", "IN_PERSON", "TEXT_MESSAGE"}

DeliveryOptions == {"PICKUP", "STANDARD", "NEXT_DAY", "SAME_DAY"}

EventTypes ==
    {"START_TRIAGE", "IDENTITY_VERIFIED", "IDENTITY_FAILED", "SYMPTOM_RECORDED",
     "SYMPTOMS_COMPLETE", "RED_FLAG_DETECTED", "NO_RED_FLAGS", "FOLLOW_UP_SELECTED",
     "DELIVERY_SELECTED", "PICKUP_SELECTED", "CONFIRMED", "CHANGE_REQUESTED"}

\* event.data with no field set; reading any field of a missing data object
\* (event.data?.x) gives undefined as well.
NoData ==
    [patientId |-> Undefined, name |-> Undefined, dob |-> Undefined,
     symptom |-> Undefined, redFlag |-> Undefined, option |-> Undefined,
     previousState |-> Undefined]

Event(type, data) == [type |-> type, data |-> data]

\* The value of lastEvent when the last operation was not processEvent.
NoEvent == Event(Undefined, NoData)

\* The targets CHANGE_REQUESTED is delivered with: the two states before
\* CONFIRMATION (DELIVERY_OPTIONS is one a session may have skipped), the
\* terminal states, a string that is no state, and the empty string.
ChangeTargets ==
    {"FOLLOW_UP_SELECTION", "DELIVERY_OPTIONS", "ESCALATED", "COMPLETED", "BOGUS", ""}

\* The events delivered to a session: every kind without a payload (for the
\* kinds that require one, a malformed event), the kinds that carry a payload
\* with it (DELIVERY_SELECTED also with an option that is no DeliveryOption),
\* a kind the machine does not know, and CHANGE_REQUESTED with no target and
\* towards each of ChangeTargets.
Events ==
    {Event(t, NoData) : t \in EventTypes \cup {"UNKNOWN_EVENT"}}
    \cup {Event("IDENTITY_VERIFIED",
                [NoData EXCEPT !.patientId = "patient-1", !.name = "Jane Doe",
                               !.dob = "1990-01-01"])}
    \cup {Event("SYMPTOM_RECORDED", [NoData EXCEPT !.symptom = "burning_pain"])}
    \cup {Event("RED_FLAG_DETECTED", [NoData EXCEPT !.redFlag = "high_temperature"])}
    \cup {Event("FOLLOW_UP_SELECTED", [NoData EXCEPT !.option = o]) :
            o \in FollowUpOptions}
    \cup {Event("DELIVERY_SELECTED", [NoData EXCEPT !.option = o]) :
            o \in {"STANDARD", "DRONE"}}
    \cup {Event("CHANGE_REQUESTED", [NoData EXCEPT !.previousState = s]) :
            s \in ChangeTargets}

\* The initialContext argument createTriageStateMachine is called with: none.
InitialContexts == {<<>>}

Languages == {"en-GB"}

MetadataKeys == {"orgId"}

MetadataValues == {"org-1"}

\* ------------------------------------------------------ the state machine

\* new UTITriageStateMachine(initialContext): the defaults, overridden by the
\* fields initialContext gives.
NewMachine(initialContext) ==
    initialContext @@
    [state |-> "INITIAL", patientId |-> Undefined, patientName |-> Undefined,
     patientDOB |-> Undefined, symptoms |-> <<>>, redFlags |-> <<>>,
     followUpOption |-> Undefined, deliveryOption |-> Undefined,
     language |-> Undefined, metadata |-> [k \in MetadataKeys |-> Undefined]]

\* if (previousState): undefined and the empty string are falsy.
Truthy(v) == v # Undefined /\ v # ""

\* processEvent: the context after the switch on the current state.
ProcessEventCode(ctx, event) ==
    CASE ctx.state = "INITIAL" ->
            IF event.type = "START_TRIAGE"
            THEN [ctx EXCEPT !.state = "IDENTITY_VERIFICATION"]
            ELSE ctx
      [] ctx.state = "IDENTITY_VERIFICATION" ->
            IF event.type = "IDENTITY_VERIFIED"
            THEN [ctx EXCEPT !.patientId = event.data.patientId,
                             !.patientName = event.data.name,
                             !.patientDOB = event.data.dob,
                             !.state = "SYMPTOM_ASSESSMENT"]
            ELSE IF event.type = "IDENTITY_FAILED"
            THEN [ctx EXCEPT !.state = "IDENTITY_VERIFICATION"]
            ELSE ctx
      [] ctx.state = "SYMPTOM_ASSESSMENT" ->
            IF event.type = "SYMPTOM_RECORDED"
            THEN [ctx EXCEPT !.symptoms = Append(@, event.data.symptom)]
            ELSE IF event.type = "SYMPTOMS_COMPLETE"
            THEN [ctx EXCEPT !.state = "RED_FLAG_CHECK"]
            ELSE ctx
      [] ctx.state = "RED_FLAG_CHECK" ->
            IF event.type = "RED_FLAG_DETECTED"
            THEN [ctx EXCEPT !.redFlags = Append(@, event.data.redFlag),
                             !.state = "ESCALATED"]
            ELSE IF event.type = "NO_RED_FLAGS"
            THEN [ctx EXCEPT !.state = "FOLLOW_UP_SELECTION"]
            ELSE ctx
      [] ctx.state = "FOLLOW_UP_SELECTION" ->
            IF event.type = "FOLLOW_UP_SELECTED"
            THEN [ctx EXCEPT !.followUpOption = event.data.option,
                             !.state = IF event.data.option = "TEXT_MESSAGE"
                                       THEN "DELIVERY_OPTIONS"
                                       ELSE "CONFIRMATION"]
            ELSE ctx
      [] ctx.state = "DELIVERY_OPTIONS" ->
            IF event.type = "DELIVERY_SELECTED"
            THEN [ctx EXCEPT !.deliveryOption = event.data.option,
                             !.state = "CONFIRMATION"]
            ELSE IF event.type = "PICKUP_SELECTED"
            THEN [ctx EXCEPT !.deliveryOption = "PICKUP", !.state = "CONFIRMATION"]
            ELSE ctx
      [] ctx.state = "CONFIRMATION" ->
            IF event.type = "CONFIRMED"
            THEN [ctx EXCEPT !.state = "COMPLETED"]
            ELSE IF event.type = "CHANGE_REQUESTED" /\ Truthy(event.data.previousState)
            THEN [ctx EXCEPT !.state = event.data.previousState]
            ELSE ctx
      [] OTHER -> ctx

\* A terminal case that handles CHANGE_REQUESTED like CONFIRMATION does.
ProcessEvent_TerminalReopens(ctx, event) ==
    IF /\ ctx.state \in TerminalStates
       /\ event.type = "CHANGE_REQUESTED"
       /\ Truthy(event.data.previousState)
    THEN [ctx EXCEPT !.state = event.data.previousState]
    ELSE ProcessEventCode(ctx, event)

\* A RED_FLAG_CHECK case that falls through from SYMPTOM_ASSESSMENT (a missing
\* break): it records symptoms too.
ProcessEvent_SymptomFallsThrough(ctx, event) ==
    IF ctx.state = "RED_FLAG_CHECK" /\ event.type = "SYMPTOM_RECORDED"
    THEN [ctx EXCEPT !.symptoms = Append(@, event.data.symptom)]
    ELSE ProcessEventCode(ctx, event)

\* A FOLLOW_UP_SELECTION case that sends every option to CONFIRMATION.
ProcessEvent_SkipsDelivery(ctx, event) ==
    IF ctx.state = "FOLLOW_UP_SELECTION" /\ event.type = "FOLLOW_UP_SELECTED"
    THEN [ctx EXCEPT !.followUpOption = event.data.option, !.state = "CONFIRMATION"]
    ELSE ProcessEventCode(ctx, event)

\* A RED_FLAG_CHECK case that escalates without recording the red flag.
ProcessEvent_ForgetsRedFlag(ctx, event) ==
    IF ctx.state = "RED_FLAG_CHECK" /\ event.type = "RED_FLAG_DETECTED"
    THEN [ctx EXCEPT !.state = "ESCALATED"]
    ELSE ProcessEventCode(ctx, event)

\* A CONFIRMATION case that ignores CHANGE_REQUESTED.
ProcessEvent_NoRewind(ctx, event) ==
    IF ctx.state = "CONFIRMATION" /\ event.type = "CHANGE_REQUESTED"
    THEN ctx
    ELSE ProcessEventCode(ctx, event)

\* A FOLLOW_UP_SELECTION case that branches without storing the choice.
ProcessEvent_ForgetsFollowUp(ctx, event) ==
    IF ctx.state = "FOLLOW_UP_SELECTION" /\ event.type = "FOLLOW_UP_SELECTED"
    THEN [ctx EXCEPT !.state = IF event.data.option = "TEXT_MESSAGE"
                                THEN "DELIVERY_OPTIONS"
                                ELSE "CONFIRMATION"]
    ELSE ProcessEventCode(ctx, event)

\* An IDENTITY_VERIFICATION case whose retry starts the session over.
ProcessEvent_FailedRestarts(ctx, event) ==
    IF ctx.state = "IDENTITY_VERIFICATION" /\ event.type = "IDENTITY_FAILED"
    THEN [ctx EXCEPT !.state = "INITIAL"]
    ELSE ProcessEventCode(ctx, event)

\* An INITIAL case without its test of the event type.
ProcessEvent_AnyEventStarts(ctx, event) ==
    IF ctx.state = "INITIAL"
    THEN [ctx EXCEPT !.state = "IDENTITY_VERIFICATION"]
    ELSE ProcessEventCode(ctx, event)

\* A RED_FLAG_CHECK case that records the red flag and goes on.
ProcessEvent_RecordsWithoutEscalating(ctx, event) ==
    IF ctx.state = "RED_FLAG_CHECK" /\ event.type = "RED_FLAG_DETECTED"
    THEN [ctx EXCEPT !.redFlags = Append(@, event.data.redFlag),
                     !.state = "FOLLOW_UP_SELECTION"]
    ELSE ProcessEventCode(ctx, event)

ProcessEvent(ctx, event) == ProcessEventCode(ctx, event)

\* { ...this.context }: a new object with the fields of the context; read at
\* once, it has the values the context has.
Spread(ctx) == ctx

\* What a call on the machine hands back: thrown or returned, and for
\* processEvent the pair { newState, context }.
Returned(newState, ctx) == [threw |-> FALSE, newState |-> newState, context |-> ctx]

\* No value: the last operation was not a call that returns one.
NoReturn == Returned(Undefined, Undefined)

\* TypeError: Cannot read properties of undefined (reading 'type').
TypeError == [threw |-> TRUE, newState |-> Undefined, context |-> Undefined]

\* A return statement that reports the state the call started in.
ProcessEventCall_ReturnsCurrentState(ctx, event) ==
    LET after == ProcessEventCode(ctx, event)
    IN  [after |-> after, result |-> Returned(ctx.state, Spread(after))]

\* processEvent(event) as a whole: the context the switch leaves in the
\* machine, and the value of the return statement.
ProcessEventCall(ctx, event) ==
    LET after == ProcessEvent(ctx, event)
    IN  [after |-> after, result |-> Returned(after.state, Spread(after))]

\* getState()
GetState(ctx) == ctx.state

\* getContext()
GetContext(ctx) == Spread(ctx)

\* A context object in its caller's hands: own, the fields the spread copied
\* into it, and seen, the whole of it as its holder last read or wrote it. No
\* snapshot is held at first.
NoSnapshot == [held |-> FALSE, own |-> Undefined, seen |-> Undefined]

Hold(ctx) == [held |-> TRUE, own |-> ctx, seen |-> ctx]

\* What reading a held snapshot gives when the machine's context is ctx. The
\* spread copies state and the other strings, and copies the references to the
\* symptoms and redFlags arrays and the metadata object; the machine never
\* rebinds these three fields (it pushes and assigns into them), so the
\* snapshot's references are to the objects the machine's context has now.
ReadSnapshot(snap, ctx) ==
    [snap.own EXCEPT !.symptoms = ctx.symptoms,
                     !.redFlags = ctx.redFlags,
                     !.metadata = ctx.metadata]

\* An isComplete() that forgets ESCALATED.
isComplete_OnlyCompleted(ctx) == ctx.state = "COMPLETED"

\* isComplete()
isComplete(ctx) == ctx.state = "COMPLETED" \/ ctx.state = "ESCALATED"

\* A needsPharmacistReview() without its CONFIRMATION clause.
needsPharmacistReview_NotInConfirmation(ctx) ==
    ctx.state = "ESCALATED" \/ Len(ctx.redFlags) > 0

\* needsPharmacistReview()
needsPharmacistReview(ctx) ==
    \/ ctx.state = "ESCALATED"
    \/ Len(ctx.redFlags) > 0
    \/ ctx.state = "CONFIRMATION"

\* JavaScript's null: no prompt.
Null == "null"

\* A getNextQuestion() with a case for INITIAL.
getNextQuestion_AsksInInitial(ctx) ==
    IF ctx.state \in TerminalStates THEN Null ELSE "Can you tell me about your symptoms?"

\* getNextQuestion()
getNextQuestion(ctx) ==
    CASE ctx.state = "IDENTITY_VERIFICATION" ->
            "To help you today, could I please have your full name and date of birth?"
      [] ctx.state = "SYMPTOM_ASSESSMENT" ->
            "Can you tell me about your symptoms?"
      [] ctx.state = "RED_FLAG_CHECK" ->
            "Do you have any of the following: high temperature, pain in your sides or back, nausea, or blood in your urine?"
      [] ctx.state = "FOLLOW_UP_SELECTION" ->
            "How would you like to proceed? I can arrange a phone call from our pharmacist, an in-person consultation, or send you a text message with medication details."
      [] ctx.state = "DELIVERY_OPTIONS" ->
            "Would you like to collect the medication from the pharmacy, or have it delivered?"
      [] ctx.state = "CONFIRMATION" ->
            "Is there anything else I can help you with today?"
      [] OTHER -> Null



\* ---------------------------------------------------------------- strings

UpperCaseLetters == "ABCDEFGHIJKLMNOPQRSTUVWXYZ"

LowerCaseLetters == "abcdefghijklmnopqrstuvwxyz"

Digits == "0123456789"

\* The character of text at position i, as a string of length one.
CharAt(text, i) == SubSeq(text, i, i)

\* Whether the one-character string c occurs in the string chars.
CharIn(c, chars) == \E i \in 1..Len(chars) : CharAt(chars, i) = c

\* String.prototype.toLowerCase, one character.
LowerChar(c) ==
    IF CharIn(c, UpperCaseLetters)
    THEN CharAt(LowerCaseLetters,
                CHOOSE i \in 1..Len(UpperCaseLetters) : CharAt(UpperCaseLetters, i) = c)
    ELSE c

\* String.prototype.toLowerCase
RECURSIVE ToLowerCase(_)
ToLowerCase(text) ==
    IF Len(text) = 0 THEN ""
    ELSE LowerChar(CharAt(text, 1)) \o ToLowerCase(SubSeq(text, 2, Len(text)))

\* Whether pattern occurs in text at position i.
OccursAt(text, pattern, i) ==
    /\ i >= 1
    /\ i + Len(pattern) - 1 <= Len(text)
    /\ SubSeq(text, i, i + Len(pattern) - 1) = pattern

\* String.prototype.includes; also a regular expression that is one literal.
Includes(text, pattern) == \E i \in 1..Len(text) : OccursAt(text, pattern, i)

\* text.match(/a|b|c/) for an alternation of literals: whether one occurs.
MatchesAny(text, patterns) == \E pattern \in patterns : Includes(text, pattern)


LetterAt(text, i) ==
    /\ i \in 1..Len(text)
    /\ CharIn(CharAt(text, i), UpperCaseLetters \o LowerCaseLetters)

DigitAt(text, i) == i \in 1..Len(text) /\ CharIn(CharAt(text, i), Digits)

SpaceAt(text, i) == i \in 1..Len(text) /\ CharAt(text, i) = " "

\* The last position of the longest run of letters that starts at i (i - 1
\* when there is none): what a greedy [a-z]+ under the i flag consumes.
RECURSIVE LetterRunEnd(_, _)
LetterRunEnd(text, i) ==
    IF LetterAt(text, i) THEN LetterRunEnd(text, i + 1) ELSE i - 1

\* The last position of the longest run of spaces that starts at i: \s+.
RECURSIVE SpaceRunEnd(_, _)
SpaceRunEnd(text, i) ==
    IF SpaceAt(text, i) THEN SpaceRunEnd(text, i + 1) ELSE i - 1

\* The last position of the longest run of digits that starts at i.
RECURSIVE DigitRunEnd(_, _)
DigitRunEnd(text, i) ==
    IF DigitAt(text, i) THEN DigitRunEnd(text, i + 1) ELSE i - 1

\* (?:\s+[A-Z][a-z]+)* after a capture that ends at position e, greedy: the
\* capture's end. Under the i flag [A-Z][a-z]+ is two letters or more.
RECURSIVE NameEnd(_, _)
NameEnd(text, e) ==
    LET j == SpaceRunEnd(text, e + 1) + 1
        k == LetterRunEnd(text, j)
    IN  IF j > e + 1 /\ k >= j + 1 THEN NameEnd(text, k) ELSE e

\* The alternatives of the name pattern's prefix.
NamePrefixes == {"name is", "i'm", "i am", "call me"}

\* Where the capture of the name pattern starts, when the pattern matches with
\* its prefix p at position i of a text in lower case; 0 when it does not.
NameStartAt(text, p, i) ==
    LET j == SpaceRunEnd(text, i + Len(p)) + 1
    IN  IF /\ OccursAt(text, p, i)
           /\ j > i + Len(p)
           /\ LetterRunEnd(text, j) >= j + 1
        THEN j
        ELSE 0

\* transcriptText.match(/(?:name is|i'm|i am|call me)\s+([A-Z][a-z]+(?:\s+[A-Z][a-z]+)*)/i):
\* the leftmost match's capture, undefined when there is no match.
NameMatch(text) ==
    LET lower == ToLowerCase(text)
        starts == {i \in 1..Len(text) :
                     \E p \in NamePrefixes : NameStartAt(lower, p, i) > 0}
    IN  IF starts = {} THEN Undefined
        ELSE LET i == CHOOSE x \in starts : \A y \in starts : x <= y
                 p == CHOOSE q \in NamePrefixes : NameStartAt(lower, q, i) > 0
                 j == NameStartAt(lower, p, i)
             IN  SubSeq(text, j, NameEnd(text, LetterRunEnd(text, j)))

SeparatorAt(text, i) == i \in 1..Len(text) /\ CharAt(text, i) \in {"/", "-"}

\* n digits from position i, up to the longest run and at most max, when at
\* least min are there; 0 otherwise: what a greedy \d{min,max} consumes.
DigitsConsumed(text, i, min, max) ==
    LET n == DigitRunEnd(text, i) - i + 1
    IN  IF n < min THEN 0 ELSE IF n > max THEN max ELSE n

\* Where a match of the date pattern that starts at i ends; 0 when none does.
\* \d{1,2} gives a digit back when the separator does not follow.
DobEndAt(text, i) ==
    LET ends == {e \in i..Len(text) :
                   \E a \in 1..2, b \in 1..2 :
                     /\ DigitRunEnd(text, i) >= i + a - 1
                     /\ SeparatorAt(text, i + a)
                     /\ DigitRunEnd(text, i + a + 1) >= i + a + b
                     /\ SeparatorAt(text, i + a + 1 + b)
                     /\ DigitsConsumed(text, i + a + b + 2, 2, 4) > 0
                     /\ e = i + a + b + 1 + DigitsConsumed(text, i + a + b + 2, 2, 4)}
    IN  IF ends = {} THEN 0 ELSE CHOOSE e \in ends : \A f \in ends : e >= f

\* transcriptText.match(/(\d{1,2}[\/\-]\d{1,2}[\/\-]\d{2,4})/): the leftmost
\* match's capture, undefined when there is no match.
DobMatch(text) ==
    LET starts == {i \in 1..Len(text) : DobEndAt(text, i) > 0}
    IN  IF starts = {} THEN Undefined
        ELSE LET i == CHOOSE x \in starts : \A y \in starts : x <= y
             IN  SubSeq(text, i, DobEndAt(text, i))

\* ------------------------------------------------- the escalation policy

\* UTISymptom.type
SymptomKinds ==
    {"burning_pain", "frequency", "cloudy_urine", "lower_abdominal_pain",
     "general_malaise"}

\* The four symptoms assessUTISymptoms counts.
MainSymptomKinds ==
    {"burning_pain", "frequency", "cloudy_urine", "lower_abdominal_pain"}

\* UTIRedFlag.type, the kinds the assessments here are given.
RedFlagKinds == {"high_temperature", "pregnancy"}

\* NHS Pharmacy First criteria: at least 2 of the main symptoms.
MainSymptomThreshold == 2

\* The sequences over S of length at most n.
SeqUpTo(S, n) == UNION {[1..k -> S] : k \in 0..n}

\* The symptoms arguments.
SymptomLists ==
    SeqUpTo([type : SymptomKinds, present : BOOLEAN], MaxSymptomEntries)

\* The redFlags arguments.
RedFlagLists ==
    SeqUpTo([type : RedFlagKinds, present : BOOLEAN], MaxRedFlagEntries)

\* Array.prototype.join(', ') over the types of a list of red flags.
RECURSIVE JoinTypes(_)
JoinTypes(flags) ==
    IF Len(flags) = 0 THEN ""
    ELSE IF Len(flags) = 1 THEN flags[1].type
    ELSE flags[1].type \o ", " \o JoinTypes(Tail(flags))

\* symptoms.some((s) => s.type === kind && s.present)
HasSymptom(symptoms, kind) ==
    \E i \in 1..Len(symptoms) : symptoms[i].type = kind /\ symptoms[i].present

\* A count of the present entries of a main kind, not of the kinds.
MainSymptomCount_CountsEntries(symptoms) ==
    Len(SelectSeq(symptoms, LAMBDA s : s.present /\ s.type \in MainSymptomKinds))

\* [hasBurningPain, hasFrequency, hasCloudyUrine, hasLowerPain].filter(Boolean).length
MainSymptomCount(symptoms) ==
    (IF HasSymptom(symptoms, "burning_pain") THEN 1 ELSE 0)
    + (IF HasSymptom(symptoms, "frequency") THEN 1 ELSE 0)
    + (IF HasSymptom(symptoms, "cloudy_urine") THEN 1 ELSE 0)
    + (IF HasSymptom(symptoms, "lower_abdominal_pain") THEN 1 ELSE 0)

\* The result for a presentation with red flags present.
RedFlagResult(symptoms, presentRedFlags) ==
    [suitableForTreatment |-> FALSE,
     redFlags |-> presentRedFlags,
     symptoms |-> symptoms,
     recommendation |-> "escalate",
     reasoning |-> "Red flags detected: " \o JoinTypes(presentRedFlags)
                   \o ". Immediate pharmacist review required."]

\* The result for a presentation with enough main symptoms.
TreatResult(symptoms, mainSymptoms) ==
    [suitableForTreatment |-> TRUE,
     redFlags |-> <<>>,
     symptoms |-> symptoms,
     recommendation |-> "treat",
     reasoning |-> "Patient presents with " \o ToString(mainSymptoms)
                   \o " main UTI symptoms. Suitable for Pharmacy First treatment pending pharmacist confirmation."]

\* The result for an insufficient or unclear presentation.
InsufficientResult(symptoms) ==
    [suitableForTreatment |-> FALSE,
     redFlags |-> <<>>,
     symptoms |-> symptoms,
     recommendation |-> "escalate",
     reasoning |-> "Insufficient or unclear symptoms. Pharmacist review recommended."]

\* assessUTISymptoms(symptoms, redFlags)
assessUTISymptomsCode(symptoms, redFlags) ==
    LET presentRedFlags == SelectSeq(redFlags, LAMBDA rf : rf.present)
        mainSymptoms == MainSymptomCount(symptoms)
    IN  IF Len(presentRedFlags) > 0
        THEN RedFlagResult(symptoms, presentRedFlags)
        ELSE IF mainSymptoms >= MainSymptomThreshold
        THEN TreatResult(symptoms, mainSymptoms)
        ELSE InsufficientResult(symptoms)

\* An assessment that looks at the symptom count before the red flags.
assessUTISymptoms_CountFirst(symptoms, redFlags) ==
    IF MainSymptomCount(symptoms) >= MainSymptomThreshold
    THEN TreatResult(symptoms, MainSymptomCount(symptoms))
    ELSE assessUTISymptomsCode(symptoms, redFlags)

\* An assessment whose threshold comparison is strict (> for >=).
assessUTISymptoms_StrictThreshold(symptoms, redFlags) ==
    LET presentRedFlags == SelectSeq(redFlags, LAMBDA rf : rf.present)
        mainSymptoms == MainSymptomCount(symptoms)
    IN  IF Len(presentRedFlags) > 0
        THEN RedFlagResult(symptoms, presentRedFlags)
        ELSE IF mainSymptoms > MainSymptomThreshold
        THEN TreatResult(symptoms, mainSymptoms)
        ELSE InsufficientResult(symptoms)

\* An assessment that reports the red flags as supplied, absent ones included.
assessUTISymptoms_ReportsSuppliedRedFlags(symptoms, redFlags) ==
    LET result == assessUTISymptomsCode(symptoms, redFlags)
    IN  IF Len(result.redFlags) > 0 THEN RedFlagResult(symptoms, redFlags) ELSE result

assessUTISymptoms(symptoms, redFlags) == assessUTISymptomsCode(symptoms, redFlags)

\* No assessment made yet.
NoResult ==
    [suitableForTreatment |-> FALSE, redFlags |-> <<>>, symptoms |-> <<>>,
     recommendation |-> "none", reasoning |-> ""]

\* A call of assessUTISymptoms on the arguments under study.
Assess ==
    /\ assessOut' = assessUTISymptoms(assessIn.symptoms, assessIn.redFlags)
    /\ UNCHANGED <<assessIn, extraction, machineVars, callVars, callerVars, changes, approval>>


\* enum PharmacyFirstCondition
PharmacyFirstConditions ==
    {"ACUTE_OTITIS_MEDIA", "IMPETIGO", "INFECTED_INSECT_BITE", "SHINGLES",
     "SINUSITIS", "SORE_THROAT", "UTI_WOMEN"}

\* The conditions a triage is attempted for: those of the enumeration, and one
\* that is none of them.
AttemptedConditions == PharmacyFirstConditions \cup {"ACNE"}

\* No row in db.consultation.
NoConsultation ==
    [orgId |-> Undefined, patientId |-> Undefined, type |-> Undefined,
     triageData |-> Undefined, redFlags |-> <<>>, documentationStatus |-> Undefined]

\* processUTITriage(orgId, patientId, triageData): the row it creates in
\* db.consultation and what it returns. It throws nothing of its own.
processUTITriageCode(orgId, patientId, triageData) ==
    LET result == assessUTISymptoms(triageData.symptoms, triageData.redFlags)
    IN  [thrown |-> Undefined,
         consultation |->
            [orgId |-> orgId,
             patientId |-> patientId,
             type |-> "UTI_WOMEN",
             triageData |-> triageData,
             redFlags |-> [i \in 1..Len(result.redFlags) |-> result.redFlags[i].type],
             documentationStatus |-> IF result.recommendation = "escalate"
                                     THEN "DRAFT"
                                     ELSE "PENDING_APPROVAL"],
         result |-> result,
         needsApproval |-> result.recommendation # "escalate"]

\* A worker that creates every consultation as PENDING_APPROVAL.
processUTITriage_PendsEverything(orgId, patientId, triageData) ==
    [processUTITriageCode(orgId, patientId, triageData)
        EXCEPT !.consultation.documentationStatus = "PENDING_APPROVAL"]

processUTITriage(orgId, patientId, triageData) ==
    processUTITriageCode(orgId, patientId, triageData)

\* No triage attempted.
NoAttempt ==
    [condition |-> Undefined, thrown |-> Undefined, consultation |-> NoConsultation,
     needsApproval |-> FALSE]

\* A triage attempt for a condition, on the arguments under study. The
\* condition is the caller's: processUTITriage has no parameter that carries
\* it, and is the one triage worker there is.
triageAttempt(condition) ==
    /\ attempt = NoAttempt
    /\ LET call == processUTITriage("org-1", "patient-1",
                        [symptoms |-> assessIn.symptoms,
                         redFlags |-> assessIn.redFlags,
                         followUpOption |-> Undefined,
                         deliveryOption |-> Undefined])
       IN  /\ attempt' = [condition |-> condition, thrown |-> call.thrown,
                          consultation |-> call.consultation,
                          needsApproval |-> call.needsApproval]
           /\ assessOut' = call.result
    /\ UNCHANGED <<assessIn, extraction, machineVars, agent, callSession, callerVars, changes, approval>>

\* ------------------------------------------------------- the extractor

\* The entries of a sequence of <<condition, entry>> pairs whose condition
\* holds, in order: a run of  if (c) list.push(entry)  statements.
RECURSIVE PushIf(_)
PushIf(pairs) ==
    IF Len(pairs) = 0 THEN <<>>
    ELSE (IF pairs[1][1] THEN <<pairs[1][2]>> ELSE <<>>) \o PushIf(Tail(pairs))

\* An entry the extractor pushes.
Present(kind) == [type |-> kind, present |-> TRUE]

\* An extractor with one test, and one push, for each half of the burning_pain
\* keywords.
extractSymptomsFromTranscript_PushesPerKeyword(transcript) ==
    LET transcriptLower == ToLowerCase(transcript)
    IN  [symptoms |-> PushIf(<<
            <<MatchesAny(transcriptLower, {"burn", "pain"}), Present("burning_pain")>>,
            <<MatchesAny(transcriptLower, {"sting", "urine", "pee", "wee"}),
              Present("burning_pain")>>,
            <<MatchesAny(transcriptLower, {"frequent", "often", "keep going", "toilet"}),
              Present("frequency")>> >>),
         redFlags |-> PushIf(<<
            <<MatchesAny(transcriptLower, {"fever", "temperature", "high temp", "hot"}),
              Present("high_temperature")>> >>)]

\* extractSymptomsFromTranscript(transcript)
extractSymptomsFromTranscript(transcript) ==
    LET transcriptLower == ToLowerCase(transcript)
    IN  [symptoms |-> PushIf(<<
            <<MatchesAny(transcriptLower, {"burn", "pain", "sting", "urine", "pee", "wee"}),
              Present("burning_pain")>>,
            <<MatchesAny(transcriptLower, {"frequent", "often", "keep going", "toilet"}),
              Present("frequency")>>,
            <<MatchesAny(transcriptLower, {"cloudy", "dark", "smell", "strong"}),
              Present("cloudy_urine")>>,
            <<MatchesAny(transcriptLower, {"lower", "tummy", "stomach", "belly"}),
              Present("lower_abdominal_pain")>> >>),
         redFlags |-> PushIf(<<
            <<MatchesAny(transcriptLower, {"fever", "temperature", "high temp", "hot"}),
              Present("high_temperature")>>,
            <<MatchesAny(transcriptLower, {"side", "back", "kidney", "flank"}),
              Present("kidney_pain")>>,
            <<MatchesAny(transcriptLower, {"nausea", "sick", "vomit", "throw up"}),
              Present("nausea_vomiting")>>,
            <<MatchesAny(transcriptLower, {"blood", "red", "pink"}),
              Present("blood_in_urine")>>,
            <<MatchesAny(transcriptLower, {"week", "7 days", "more than"}),
              Present("symptoms_over_7_days")>>,
            <<MatchesAny(transcriptLower, {"pregnant", "expecting", "baby"}),
              Present("pregnancy")>>,
            <<MatchesAny(transcriptLower, {"diabetes", "diabetic"}),
              Present("diabetes")>> >>)]

\* What a caller says in one breath, in pieces.
Phrases ==
    {"It BURNS", "it stings when I pee", "I go often", "to the toilet",
     "my back hurts", "I feel sick", "no fever", "nothing else"}

\* The transcripts the extractor is studied on: two pieces each.
ExtractTexts == {a \o " and " \o b : a, b \in Phrases}

\* extractSymptomsFromTranscript on each of them.
Extracted == [transcript \in ExtractTexts |-> extractSymptomsFromTranscript(transcript)]

\* No call of the extractor yet.
InitNoExtraction == extraction = [transcript |-> "", results |-> <<>>]

\* One more call of extractSymptomsFromTranscript on the transcript under study.
extract ==
    /\ Len(extraction.results) < MaxExtractions
    /\ extraction' = [extraction EXCEPT
                         !.results = Append(@, Extracted[extraction.transcript])]
    /\ UNCHANGED <<assessIn, assessOut, machineVars, callVars, callerVars, changes, approval>>

\* ------------------------------------------------ the approval endpoint

\* What a send function gave its caller: a throw, or an SMSResult.
Thrown == [thrown |-> TRUE, success |-> FALSE]

SMSResult(success) == [thrown |-> FALSE, success |-> success]

\* sendViaTwilio(message): it throws when the Twilio credentials are not
\* configured; an error of the Twilio client is caught and returned.
sendViaTwilio(configured, accepts) ==
    IF ~configured THEN Thrown ELSE SMSResult(accepts)

\* sendViaLiveKit(message): return sendViaTwilio(message)
sendViaLiveKit(configured, accepts) == sendViaTwilio(configured, accepts)

\* sendSMS(message): sendViaLiveKit, and sendViaTwilio when that throws.
sendSMS(configured, accepts) ==
    LET first == sendViaLiveKit(configured, accepts)
    IN  IF first.thrown THEN sendViaTwilio(configured, accepts) ELSE first

\* pickupTime in the route's call of sendConsultationConfirmation
PickupTime(deliveryOption) ==
    IF deliveryOption = "PICKUP" THEN "5:00 PM" ELSE Undefined

\* deliveryDate in the route's call of sendConsultationConfirmation
DeliveryDate(deliveryOption) ==
    CASE deliveryOption = "STANDARD" -> "in 2-3 business days"
      [] deliveryOption = "NEXT_DAY" -> "tomorrow"
      [] deliveryOption = "SAME_DAY" -> "today"
      [] OTHER -> Undefined

\* The message sendConsultationConfirmation composes for status 'approved',
\* as what it tells the patient to expect.
ConfirmationMessage(phoneNumber, pickupTime, deliveryDate) ==
    [to |-> phoneNumber,
     message |-> IF pickupTime # Undefined THEN "collect before " \o pickupTime
                 ELSE IF deliveryDate # Undefined THEN "delivered " \o deliveryDate
                 ELSE "contact us"]

\* No request made.
NoApproval ==
    [pc |-> "none", consultationId |-> Undefined, pharmacistId |-> Undefined,
     approved |-> FALSE, exists |-> FALSE, phone |-> "", deliveryOption |-> Undefined,
     twilioConfigured |-> FALSE, twilioAccepts |-> FALSE,
     documentationStatus |-> "DRAFT", sent |-> <<>>, auditLog |-> <<>>,
     response |-> Undefined]

\* The requests POST /api/consultations/approve receives, each with the
\* consultation row its id names (if any), the patient's phone and the
\* delivery option of that row, and the state of the SMS service.
ApprovalRequests ==
    [pc : {"received"},
     consultationId : {Undefined, "consultation-1"},
     pharmacistId : {Undefined, "pharmacist-1"},
     approved : BOOLEAN,
     exists : BOOLEAN,
     phone : {"", "+447700900000"},
     deliveryOption : {Undefined} \cup DeliveryOptions,
     twilioConfigured : BOOLEAN,
     twilioAccepts : BOOLEAN,
     documentationStatus : {"DRAFT", "PENDING_APPROVAL"},
     sent : {<<>>},
     auditLog : {<<>>},
     response : {Undefined}]

\* POST, up to the consultation it is about: 400 without the two ids, 404
\* without the row.
findConsultation ==
    /\ approval.pc = "received"
    /\ approval' =
          IF approval.consultationId = Undefined \/ approval.pharmacistId = Undefined
          THEN [approval EXCEPT !.pc = "done", !.response = "400"]
          ELSE IF ~approval.exists
          THEN [approval EXCEPT !.pc = "done", !.response = "404"]
          ELSE [approval EXCEPT !.pc = "found"]
    /\ UNCHANGED <<machineVars, assessVars, callVars, callerVars, changes>>

\* POST: db.consultation.update
updateConsultation ==
    /\ approval.pc = "found"
    /\ approval' = [approval EXCEPT
                        !.pc = "updated",
                        !.documentationStatus = IF approval.approved THEN "APPROVED"
                                                ELSE "REJECTED"]
    /\ UNCHANGED <<machineVars, assessVars, callVars, callerVars, changes>>

\* POST: the SMS confirmation of an approval to a patient with a phone. A
\* throw of sendConsultationConfirmation goes to the handler's catch, which
\* answers 500.
sendConfirmation ==
    /\ approval.pc = "updated"
    /\ approval' =
          IF approval.approved /\ approval.phone # ""
          THEN LET result == sendSMS(approval.twilioConfigured, approval.twilioAccepts)
                   message == ConfirmationMessage(approval.phone,
                                                  PickupTime(approval.deliveryOption),
                                                  DeliveryDate(approval.deliveryOption))
               IN  IF result.thrown
                   THEN [approval EXCEPT !.pc = "done", !.response = "500"]
                   ELSE [approval EXCEPT
                            !.pc = "notified",
                            !.sent = IF result.success THEN Append(@, message) ELSE @]
          ELSE [approval EXCEPT !.pc = "notified"]
    /\ UNCHANGED <<machineVars, assessVars, callVars, callerVars, changes>>

\* POST: db.auditLog.create, and the answer.
createAuditLog ==
    /\ approval.pc = "notified"
    /\ approval' = [approval EXCEPT
                        !.pc = "done",
                        !.response = "200",
                        !.auditLog = Append(@,
                            [userId |-> approval.pharmacistId,
                             action |-> IF approval.approved THEN "consultation.approved"
                                        ELSE "consultation.rejected",
                             resourceType |-> "Consultation",
                             resourceId |-> approval.consultationId])]
    /\ UNCHANGED <<machineVars, assessVars, callVars, callerVars, changes>>

\* ---------------------------------------------------------------- history

\* The happy path of the integration tests, as the phases a session's events
\* have gone through: any event out of order leaves the path for good.
HappyStep(h, event) ==
    CASE h = "fresh" /\ event.type = "START_TRIAGE" -> "started"
      [] h = "started" /\ event.type = "IDENTITY_VERIFIED" -> "identified"
      [] h = "identified" /\ event.type = "SYMPTOM_RECORDED" -> "identified"
      [] h = "identified" /\ event.type = "SYMPTOMS_COMPLETE" -> "symptomsComplete"
      [] h = "symptomsComplete" /\ event.type = "NO_RED_FLAGS" -> "noRedFlags"
      [] h = "noRedFlags" /\ event.type = "FOLLOW_UP_SELECTED"
            /\ event.data.option = "TEXT_MESSAGE" -> "textMessage"
      [] h = "textMessage" /\ event.type \in {"PICKUP_SELECTED", "DELIVERY_SELECTED"}
            -> "deliveryChosen"
      [] h = "deliveryChosen" /\ event.type = "CONFIRMED" -> "confirmed"
      [] OTHER -> "off"

\* A rewind from CONFIRMATION to FOLLOW_UP_SELECTION and the re-traversal after
\* it, as the phases the events delivered since have gone through: the rewind
\* starts it (again) whenever it happens, any event out of order ends it.
RewindStep(r, state, event) ==
    CASE state = "CONFIRMATION" /\ event.type = "CHANGE_REQUESTED"
            /\ event.data.previousState = "FOLLOW_UP_SELECTION" -> "rewound"
      [] r = "rewound" /\ event.type = "FOLLOW_UP_SELECTED"
            /\ event.data.option = "TEXT_MESSAGE" -> "textMessage"
      [] r = "rewound" /\ event.type = "FOLLOW_UP_SELECTED"
            /\ event.data.option \in {"PHONE_CALL", "IN_PERSON"} -> "reselected"
      [] r = "textMessage" /\ event.type \in {"PICKUP_SELECTED", "DELIVERY_SELECTED"}
            -> "reselected"
      [] r = "reselected" /\ event.type = "CONFIRMED" -> "completed"
      [] OTHER -> "none"

\* ------------------------------------------------------ the voice agent

\* The transcripts a call's speech recognition returns.
Transcripts ==
    {"My name is Jane Doe 01/02/1990",
     "It burns and I go often",
     "I have a Fever and it stings",
     "Please phone me",
     "Send a text message",
     "Deliver it next day"}

\* What processTriageLogic does with a transcript: the event it hands to the
\* triage machine (NoEvent when none) and whether it calls
\* escalateToPharmacist. currentState is read once, before any event.
processTriageLogic(currentState, transcriptText) ==
    LET transcriptLower == ToLowerCase(transcriptText)
        nameMatch == NameMatch(transcriptText)
        dobMatch == DobMatch(transcriptText)
        extracted == extractSymptomsFromTranscript(transcriptText)
        send(event) == [event |-> event, escalate |-> FALSE]
        nothing == send(NoEvent)
    IN  CASE currentState = "IDENTITY_VERIFICATION" ->
                IF nameMatch # Undefined /\ dobMatch # Undefined
                THEN send(Event("IDENTITY_VERIFIED",
                                [NoData EXCEPT !.name = nameMatch, !.dob = dobMatch]))
                ELSE nothing
          [] currentState = "SYMPTOM_ASSESSMENT" ->
                IF Len(extracted.redFlags) > 0
                THEN [event |-> Event("RED_FLAG_DETECTED",
                                      [NoData EXCEPT !.redFlag = extracted.redFlags[1].type]),
                      escalate |-> TRUE]
                ELSE IF Len(extracted.symptoms) >= 2
                THEN send(Event("SYMPTOMS_COMPLETE", NoData))
                ELSE nothing
          [] currentState = "FOLLOW_UP_SELECTION" ->
                IF Includes(transcriptLower, "phone") \/ Includes(transcriptLower, "call")
                THEN send(Event("FOLLOW_UP_SELECTED", [NoData EXCEPT !.option = "PHONE_CALL"]))
                ELSE IF Includes(transcriptLower, "person") \/ Includes(transcriptLower, "visit")
                THEN send(Event("FOLLOW_UP_SELECTED", [NoData EXCEPT !.option = "IN_PERSON"]))
                ELSE IF Includes(transcriptLower, "text") \/ Includes(transcriptLower, "message")
                THEN send(Event("FOLLOW_UP_SELECTED", [NoData EXCEPT !.option = "TEXT_MESSAGE"]))
                ELSE nothing
          [] currentState = "DELIVERY_OPTIONS" ->
                IF Includes(transcriptLower, "pick") \/ Includes(transcriptLower, "collect")
                THEN send(Event("PICKUP_SELECTED", NoData))
                ELSE IF Includes(transcriptLower, "deliver")
                THEN send(Event("DELIVERY_SELECTED",
                        [NoData EXCEPT !.option =
                            IF Includes(transcriptLower, "same day")
                               \/ Includes(transcriptLower, "urgent")
                            THEN "SAME_DAY"
                            ELSE IF Includes(transcriptLower, "next day")
                            THEN "NEXT_DAY"
                            ELSE "STANDARD"]))
                ELSE nothing
          [] OTHER -> nothing

\* processTriageLogic on every state and transcript of a call.
TriageLogic ==
    [currentState \in TriageStates, transcriptText \in Transcripts |->
        processTriageLogic(currentState, transcriptText)]

\* The context of the triage machine after processTriageLogic has processed a
\* sequence of transcripts, one after the other, and nothing else has acted on
\* the machine.
RECURSIVE AgentRun(_, _)
AgentRun(ctx, texts) ==
    IF texts = <<>> THEN ctx
    ELSE LET logic == TriageLogic[ctx.state, Head(texts)]
         IN  AgentRun(IF logic.event = NoEvent THEN ctx
                      ELSE ProcessEventCall(ctx, logic.event).after,
                      Tail(texts))

\* The events that reach a call's triage machine from outside
\* processTriageLogic, which sends none of these kinds itself.
OrchestratorEvents ==
    {Event(t, NoData) : t \in {"START_TRIAGE", "NO_RED_FLAGS", "CONFIRMED"}}

\* ---------------------------------------------------------------- actions

\* The record of one operation on the machine: its new context, and the
\* history of the event it handed to processEvent, if any.
Record(operation, event, newContext, result) ==
    /\ created' = created
    /\ context' = newContext
    /\ returned' = result
    /\ op' = operation
    /\ lastEvent' = event
    /\ prev' = context
    /\ visited' = IF event = NoEvent THEN visited ELSE visited \cup {context.state}
    /\ happy' = IF event = NoEvent THEN happy ELSE HappyStep(happy, event)
    /\ redFlagSeen' = (redFlagSeen \/ (/\ event.type = "RED_FLAG_DETECTED"
                                       /\ event.data.redFlag # Undefined
                                       /\ context.state \in NonTerminalStates))
    /\ rewind' = IF event = NoEvent THEN rewind
                 ELSE RewindStep(rewind, context.state, event)

\* One processEvent call.
Deliver(event) ==
    /\ ~(context.state = "SYMPTOM_ASSESSMENT" /\ event.type = "SYMPTOM_RECORDED"
         /\ Len(context.symptoms) >= MaxSymptoms)
    /\ LET call == ProcessEventCall(context, event)
       IN  Record("processEvent", event, call.after, call.result)

processEvent(event) == Deliver(event) /\ UNCHANGED <<assessVars, callVars, callerVars, changes, approval>>

\* updateMetadata(key, value)
updateMetadata(key, value) ==
    /\ Record("updateMetadata", NoEvent, [context EXCEPT !.metadata[key] = value],
              NoReturn)
    /\ UNCHANGED <<assessVars, callVars, callerVars, changes, approval>>

\* this.context.language = language
SetLanguage(ctx, language) == [ctx EXCEPT !.language = language]

\* setLanguage(language)
setLanguage(language) ==
    /\ Record("setLanguage", NoEvent, SetLanguage(context, language), NoReturn)
    /\ UNCHANGED <<assessVars, callVars, callerVars, changes, approval>>

\* processAudio(audioChunk): the language detection of the first chunk, then,
\* when the recognition returned a text, the transcript and processTriageLogic
\* (with escalateToPharmacist when it asks for it).
processAudio(text, detected) ==
    LET detect == agent.language = Undefined
        ctx == IF detect THEN SetLanguage(context, detected) ELSE context
        logic == IF text = Undefined
                 THEN [event |-> NoEvent, escalate |-> FALSE]
                 ELSE TriageLogic[ctx.state, text]
        transcript == IF text = Undefined
                      THEN agent.transcript
                      ELSE Append(agent.transcript, text)
    IN  /\ callSession.endTime = Undefined
        /\ text # Undefined => Len(agent.transcript) < MaxTranscript
        /\ Record("processAudio", logic.event,
                  IF logic.event = NoEvent THEN ctx
                  ELSE ProcessEventCall(ctx, logic.event).after,
                  NoReturn)
        /\ agent' = [agent EXCEPT !.language = IF detect THEN detected ELSE @,
                                  !.transcript = transcript]
        /\ callSession' =
              [callSession EXCEPT
                  !.detectedLanguage = IF detect THEN detected ELSE @,
                  !.transcript = transcript,
                  !.status = IF logic.escalate THEN "ESCALATED" ELSE @,
                  !.escalatedReason = IF logic.escalate
                                      THEN "Red flag detected during triage"
                                      ELSE @]
        /\ UNCHANGED <<assessVars, callerVars, attempt, changes, approval>>

\* this.state.transcript.join(' ')
RECURSIVE Join(_)
Join(texts) ==
    IF Len(texts) = 0 THEN ""
    ELSE IF Len(texts) = 1 THEN texts[1]
    ELSE texts[1] \o " " \o Join(Tail(texts))

\* endCall(), which is completeTriage(): the consultation of a call that has a
\* patientId, and the call session closed as a completed triage, whatever
\* state the triage machine is in.
endCall ==
    LET ctx == GetContext(context)
        extracted == extractSymptomsFromTranscript(Join(agent.transcript))
    IN  /\ callSession.endTime = Undefined
        /\ Record("endCall", NoEvent, context, NoReturn)
        /\ attempt' =
              IF agent.patientId # Undefined
              THEN LET call == processUTITriage(created.metadata.orgId, agent.patientId,
                                    [symptoms |-> extracted.symptoms,
                                     redFlags |-> extracted.redFlags,
                                     followUpOption |-> ctx.followUpOption,
                                     deliveryOption |-> ctx.deliveryOption])
                   IN  [condition |-> Undefined, thrown |-> call.thrown,
                        consultation |-> call.consultation,
                        needsApproval |-> call.needsApproval]
              ELSE attempt
        /\ callSession' = [callSession EXCEPT !.status = "COMPLETED",
                                              !.endTime = "now",
                                              !.resolution = "triage_completed"]
        /\ UNCHANGED <<assessVars, callerVars, agent, changes, approval>>

\* The 'disconnected' handler of the realtime session: the call session
\* closed as a completed triage with the transcript of the session.
disconnected ==
    /\ callSession.endTime = Undefined
    /\ Record("disconnected", NoEvent, context, NoReturn)
    /\ callSession' = [callSession EXCEPT !.status = "COMPLETED",
                                          !.endTime = "now",
                                          !.transcript = agent.transcript,
                                          !.resolution = "triage_completed"]
    /\ UNCHANGED <<assessVars, callerVars, agent, attempt, changes, approval>>

\* An event delivered to the call's triage machine from outside the agent.
orchestratorEvent(event) == Deliver(event) /\ UNCHANGED <<assessVars, callVars, callerVars, changes, approval>>

\* The events a caller delivers that carry what their kind requires, with
\* FOLLOW_UP_SELECTION the one target of CHANGE_REQUESTED.
WellFormedEvents ==
    {Event(t, NoData) :
        t \in {"START_TRIAGE", "IDENTITY_FAILED", "SYMPTOMS_COMPLETE", "NO_RED_FLAGS",
               "PICKUP_SELECTED", "CONFIRMED"}}
    \cup {Event("IDENTITY_VERIFIED",
                [NoData EXCEPT !.patientId = "patient-1", !.name = "Jane Doe",
                               !.dob = "1990-01-01"])}
    \cup {Event("SYMPTOM_RECORDED", [NoData EXCEPT !.symptom = "burning_pain"])}
    \cup {Event("RED_FLAG_DETECTED", [NoData EXCEPT !.redFlag = "high_temperature"])}
    \cup {Event("FOLLOW_UP_SELECTED", [NoData EXCEPT !.option = o]) :
            o \in FollowUpOptions}
    \cup {Event("DELIVERY_SELECTED", [NoData EXCEPT !.option = "STANDARD"])}
    \cup {Event("CHANGE_REQUESTED",
                [NoData EXCEPT !.previousState = "FOLLOW_UP_SELECTION"])}

\* processEvent(undefined), a call without an event object: every case of a
\* non-terminal state reads event.type and throws; the terminal cases and the
\* switch on a state that has no case read nothing, and the call returns.
processEventUndefined ==
    /\ Record("processEvent", NoEvent, context,
              IF context.state \in NonTerminalStates
              THEN TypeError
              ELSE Returned(context.state, Spread(context)))
    /\ UNCHANGED <<assessVars, callVars, callerVars, changes, approval>>

\* const snapshot = machine.getContext()
getContext ==
    /\ Record("getContext", NoEvent, context, Returned(Undefined, GetContext(context)))
    /\ snapshot' = Hold(GetContext(context))
    /\ UNCHANGED <<assessVars, callVars, other, changes, approval>>

\* const snapshot = machine.processEvent(event).context, of the call just made
holdReturned ==
    /\ op = "processEvent"
    /\ lastEvent # NoEvent
    /\ snapshot # Hold(returned.context)
    /\ snapshot' = Hold(returned.context)
    /\ UNCHANGED <<machineVars, assessVars, callVars, other, changes, approval>>

\* snapshot.symptoms.push(symptom), by the holder of a snapshot: the array is
\* the one the machine's context has.
snapshotPush(symptom) ==
    /\ snapshot.held
    /\ Len(context.symptoms) < MaxSymptoms
    /\ Record("snapshotPush", NoEvent, [context EXCEPT !.symptoms = Append(@, symptom)],
              NoReturn)
    /\ snapshot' = [snapshot EXCEPT !.seen = ReadSnapshot(snapshot, context')]
    /\ UNCHANGED <<assessVars, callVars, other, changes, approval>>

\* snapshot.state = state, by the holder of a snapshot: the field is the
\* snapshot's own.
snapshotAssign(state) ==
    /\ snapshot.held
    /\ snapshot.own.state # state
    /\ Record("snapshotAssign", NoEvent, context, NoReturn)
    /\ snapshot' = [snapshot EXCEPT !.own.state = state,
                                    !.seen = [ReadSnapshot(snapshot, context)
                                                EXCEPT !.state = state]]
    /\ UNCHANGED <<assessVars, callVars, other, changes, approval>>

\* A machine as createTriageStateMachine returns it.
InitMachine ==
    /\ created \in InitialContexts
    /\ context = NewMachine(created)
    /\ op = "new"
    /\ lastEvent = NoEvent
    /\ prev = context
    /\ visited = {}
    /\ happy = "fresh"
    /\ redFlagSeen = FALSE
    /\ rewind = "none"
    /\ returned = NoReturn
    /\ snapshot = NoSnapshot
    /\ other = NewMachine(created)
    /\ changes = 0

\* No assessment under study.
InitNoAssess ==
    /\ assessIn = [symptoms |-> <<>>, redFlags |-> <<>>]
    /\ assessOut = NoResult
    /\ InitNoExtraction

\* No call: a machine on its own.
InitNoCall ==
    /\ agent = [callSessionId |-> Undefined, transcript |-> <<>>,
                language |-> Undefined, patientId |-> Undefined]
    /\ callSession = [status |-> Undefined, escalatedReason |-> Undefined,
                      transcript |-> <<>>, detectedLanguage |-> Undefined,
                      endTime |-> Undefined, resolution |-> Undefined]
    /\ attempt = NoAttempt

\* No approval request.
InitNoApproval == approval = NoApproval

Init == InitMachine /\ InitNoAssess /\ InitNoCall /\ InitNoApproval

Next ==
    \/ \E event \in Events : processEvent(event)
    \/ \E key \in MetadataKeys, value \in MetadataValues : updateMetadata(key, value)
    \/ \E language \in Languages : setLanguage(language)

Spec == Init /\ [][Next]_vars

\* A machine and the caller that keeps what it returns.
NextCaller ==
    \/ \E event \in WellFormedEvents : processEvent(event)
    \/ processEventUndefined
    \/ getContext
    \/ holdReturned
    \/ \E symptom \in {"urgency"} : snapshotPush(symptom)
    \/ \E state \in {"INITIAL"} : snapshotAssign(state)

SpecCaller == Init /\ [][NextCaller]_vars

\* The fields of a machine's context that are objects of its creator's: the
\* arrays and the metadata object that initialContext gives, which the spread
\* copies by reference. The defaults are literals, new in each constructor call.
ReferenceFields == {"symptoms", "redFlags", "metadata"}

\* Defaults hoisted into one object that every constructor call spreads.
SharedFields_HoistedDefaults(initialContext) == ReferenceFields

SharedFields(initialContext) == DOMAIN initialContext \cap ReferenceFields

\* The context of one machine after the other, created with the same
\* initialContext object, came to have the context from.
Propagate(from, to, fields) ==
    [f \in DOMAIN to |-> IF f \in fields THEN from[f] ELSE to[f]]

\* The initialContext objects two machines are created with: none, and one
\* that gives them a symptoms array and a metadata object.
TwoContexts ==
    {<<>>, [symptoms |-> <<>>, metadata |-> [orgId |-> Undefined]]}

\* The events delivered to each of two machines.
TwoEvents ==
    {Event(t, NoData) : t \in {"START_TRIAGE", "SYMPTOMS_COMPLETE"}}
    \cup {Event("IDENTITY_VERIFIED",
                [NoData EXCEPT !.patientId = "patient-1", !.name = "Jane Doe",
                               !.dob = "1990-01-01"])}
    \cup {Event("SYMPTOM_RECORDED", [NoData EXCEPT !.symptom = "burning_pain"])}
    \cup {Event("RED_FLAG_DETECTED", [NoData EXCEPT !.redFlag = "high_temperature"])}

\* A call on the first machine, and what it does to the objects the second
\* machine shares with it.
firstProcessEvent(event) ==
    /\ Deliver(event)
    /\ other' = Propagate(context', other, SharedFields(created))
    /\ UNCHANGED <<assessVars, callVars, snapshot, changes, approval>>

firstUpdateMetadata(key, value) ==
    /\ Record("updateMetadata", NoEvent, [context EXCEPT !.metadata[key] = value],
              NoReturn)
    /\ other' = Propagate(context', other, SharedFields(created))
    /\ UNCHANGED <<assessVars, callVars, snapshot, changes, approval>>

firstSetLanguage(language) ==
    /\ Record("setLanguage", NoEvent, SetLanguage(context, language), NoReturn)
    /\ other' = Propagate(context', other, SharedFields(created))
    /\ UNCHANGED <<assessVars, callVars, snapshot, changes, approval>>

\* A call on the second machine, and what it does to the objects the first
\* machine shares with it.
OnOther(operation, newContext) ==
    /\ other' = newContext
    /\ Record(operation, NoEvent, Propagate(newContext, context, SharedFields(created)),
              NoReturn)
    /\ UNCHANGED <<assessVars, callVars, snapshot, changes, approval>>

otherProcessEvent(event) ==
    /\ ~(other.state = "SYMPTOM_ASSESSMENT" /\ event.type = "SYMPTOM_RECORDED"
         /\ Len(other.symptoms) >= MaxSymptoms)
    /\ OnOther("otherProcessEvent", ProcessEventCall(other, event).after)

otherUpdateMetadata(key, value) ==
    OnOther("otherUpdateMetadata", [other EXCEPT !.metadata[key] = value])

otherSetLanguage(language) ==
    OnOther("otherSetLanguage", SetLanguage(other, language))

\* Two machines created with the same argument.
InitTwo ==
    /\ created \in TwoContexts
    /\ context = NewMachine(created)
    /\ op = "new"
    /\ lastEvent = NoEvent
    /\ prev = context
    /\ visited = {}
    /\ happy = "fresh"
    /\ redFlagSeen = FALSE
    /\ rewind = "none"
    /\ returned = NoReturn
    /\ snapshot = NoSnapshot
    /\ other = NewMachine(created)
    /\ changes = 0
    /\ InitNoAssess
    /\ InitNoApproval
    /\ InitNoCall

NextTwo ==
    \/ \E event \in TwoEvents : firstProcessEvent(event)
    \/ \E key \in MetadataKeys, value \in MetadataValues : firstUpdateMetadata(key, value)
    \/ \E language \in Languages : firstSetLanguage(language)
    \/ \E event \in TwoEvents : otherProcessEvent(event)
    \/ \E key \in MetadataKeys, value \in MetadataValues : otherUpdateMetadata(key, value)
    \/ \E language \in Languages : otherSetLanguage(language)

SpecTwo == InitTwo /\ [][NextTwo]_vars

\* The initialContext arguments of machines that are given one: a state, a
\* symptom and a state, a red flag, a language.
SeededContexts ==
    {<<>>,
     [state |-> "CONFIRMATION"],
     [state |-> "SYMPTOM_ASSESSMENT", symptoms |-> <<"frequency">>],
     [redFlags |-> <<"pregnancy">>],
     [language |-> "en-GB"]}

\* A machine as createTriageStateMachine(initialContext) returns it.
InitSeeded ==
    /\ created \in SeededContexts
    /\ context = NewMachine(created)
    /\ op = "new"
    /\ lastEvent = NoEvent
    /\ prev = context
    /\ visited = {}
    /\ happy = "fresh"
    /\ redFlagSeen = FALSE
    /\ rewind = "none"
    /\ returned = NoReturn
    /\ snapshot = NoSnapshot
    /\ other = NewMachine(created)
    /\ changes = 0
    /\ InitNoAssess
    /\ InitNoApproval
    /\ InitNoCall

NextSeeded ==
    \/ \E event \in WellFormedEvents \cup {Event("UNKNOWN_EVENT", NoData)} :
          processEvent(event)
    \/ \E key \in MetadataKeys, value \in MetadataValues : updateMetadata(key, value)
    \/ \E language \in Languages : setLanguage(language)

SpecSeeded == InitSeeded /\ [][NextSeeded]_vars

\* The events delivered to a session that gets no CHANGE_REQUESTED.
ForwardEvents == {event \in Events : event.type # "CHANGE_REQUESTED"}

\* A processEvent call by a caller that counts the state changes: it compares
\* the newState the call returns with the state before the call.
countedProcessEvent(event) ==
    /\ Deliver(event)
    /\ changes' = IF returned'.newState # context.state THEN changes + 1 ELSE changes
    /\ UNCHANGED <<assessVars, callVars, callerVars, approval>>

NextForward == \E event \in ForwardEvents : countedProcessEvent(event)

\* A session that gets no CHANGE_REQUESTED event.
SpecForward == Init /\ [][NextForward]_vars

\* An approval request on its own.
InitApprove ==
    /\ InitMachine
    /\ InitNoAssess
    /\ InitNoCall
    /\ approval \in ApprovalRequests

NextApprove ==
    \/ findConsultation
    \/ updateConsultation
    \/ sendConfirmation
    \/ createAuditLog

SpecApprove == InitApprove /\ [][NextApprove]_vars

\* The escalation policy on its own: every pair of arguments within the bounds,
\* and the call on them.
InitAssess ==
    /\ InitMachine
    /\ InitNoCall
    /\ InitNoApproval
    /\ assessIn \in [symptoms : SymptomLists, redFlags : RedFlagLists]
    /\ assessOut = NoResult
    /\ InitNoExtraction

NextAssess == Assess

SpecAssess == InitAssess /\ [][NextAssess]_vars

\* The extractor on its own: each transcript, and the calls on it.
InitExtract ==
    /\ InitMachine
    /\ InitNoCall
    /\ InitNoApproval
    /\ assessIn = [symptoms |-> <<>>, redFlags |-> <<>>]
    /\ assessOut = NoResult
    /\ extraction \in [transcript : ExtractTexts, results : {<<>>}]

NextExtract == extract

SpecExtract == InitExtract /\ [][NextExtract]_vars

\* Triage attempts: every pair of arguments within the bounds, and an attempt
\* for each condition on them.
NextTriage == \E condition \in AttemptedConditions : triageAttempt(condition)

SpecTriage == InitAssess /\ [][NextTriage]_vars

\* A call: the agent after new GeminiVoiceAgent(config) and initialize(), its
\* triage machine created with the preferred language and the call's metadata,
\* the call session IN_PROGRESS.
InitCall ==
    /\ created = [language |-> "en-GB",
                  metadata |-> [orgId |-> "org-1", callSessionId |-> "call-1"]]
    /\ context = NewMachine(created)
    /\ op = "new"
    /\ lastEvent = NoEvent
    /\ prev = context
    /\ visited = {}
    /\ happy = "fresh"
    /\ redFlagSeen = FALSE
    /\ rewind = "none"
    /\ returned = NoReturn
    /\ snapshot = NoSnapshot
    /\ other = NewMachine(created)
    /\ changes = 0
    /\ InitNoAssess
    /\ InitNoApproval
    /\ agent = [callSessionId |-> "call-1", transcript |-> <<>>,
                language |-> Undefined, patientId |-> Undefined]
    /\ callSession = [status |-> "IN_PROGRESS", escalatedReason |-> Undefined,
                      transcript |-> <<>>, detectedLanguage |-> Undefined,
                      endTime |-> Undefined, resolution |-> Undefined]
    /\ attempt = NoAttempt

NextCall ==
    \/ \E text \in Transcripts \cup {Undefined}, detected \in Languages :
          processAudio(text, detected)
    \/ \E event \in OrchestratorEvents : orchestratorEvent(event)
    \/ endCall
    \/ disconnected

SpecCall == InitCall /\ [][NextCall]_vars

\* ------------------------------------------------------------- the claims

\* The transition table of the design (section 4.1): the (state, event kind)
\* pairs for which it defines a transition.
Listed(state, type) ==
    \/ state = "INITIAL" /\ type = "START_TRIAGE"
    \/ state = "IDENTITY_VERIFICATION" /\ type \in {"IDENTITY_VERIFIED", "IDENTITY_FAILED"}
    \/ state = "SYMPTOM_ASSESSMENT" /\ type \in {"SYMPTOM_RECORDED", "SYMPTOMS_COMPLETE"}
    \/ state = "RED_FLAG_CHECK" /\ type \in {"RED_FLAG_DETECTED", "NO_RED_FLAGS"}
    \/ state = "FOLLOW_UP_SELECTION" /\ type = "FOLLOW_UP_SELECTED"
    \/ state = "DELIVERY_OPTIONS" /\ type \in {"DELIVERY_SELECTED", "PICKUP_SELECTED"}
    \/ state = "CONFIRMATION" /\ type \in {"CONFIRMED", "CHANGE_REQUESTED"}

\* An event that lacks the payload field its kind requires (section 6).
Malformed(event) ==
    \/ event.type = "IDENTITY_VERIFIED" /\ event.data.name = Undefined
    \/ event.type = "SYMPTOM_RECORDED" /\ event.data.symptom = Undefined
    \/ event.type = "RED_FLAG_DETECTED" /\ event.data.redFlag = Undefined
    \/ event.type \in {"FOLLOW_UP_SELECTED", "DELIVERY_SELECTED"}
          /\ event.data.option = Undefined

\* C1: terminal states are absorbing: a processEvent call made in ESCALATED or
\* COMPLETED, whatever the event, leaves the state as it was.
C1_TerminalAbsorbing ==
    (op = "processEvent" /\ prev.state \in TerminalStates)
        => context.state = prev.state

\* C1 witness: CHANGE_REQUESTED towards FOLLOW_UP_SELECTION was delivered to a
\* COMPLETED session.
C1_Witness ==
    /\ op = "processEvent"
    /\ prev.state = "COMPLETED"
    /\ lastEvent.type = "CHANGE_REQUESTED"
    /\ lastEvent.data.previousState = "FOLLOW_UP_SELECTION"

\* C2: red-flag precedence: a session that was delivered a well-formed
\* RED_FLAG_DETECTED in a non-terminal state ends up ESCALATED with
\* needsPharmacistReview() true; so once it has left the non-terminal states
\* for good, ESCALATED is where it is.
C2_RedFlagPrecedence ==
    (redFlagSeen /\ context.state \notin NonTerminalStates)
        => (context.state = "ESCALATED" /\ needsPharmacistReview(context))

\* C5: a malformed event is rejected without mutation: after processEvent was
\* handed an event that lacks its required payload field, the state and every
\* context field are what they were.
C5_MalformedRejected ==
    (op = "processEvent" /\ Malformed(lastEvent)) => context = prev

C7_ChangeRewindsOnly ==
    (op = "processEvent" /\ prev.state = "CONFIRMATION"
        /\ lastEvent.type = "CHANGE_REQUESTED")
        => (context.state \in NonTerminalStates /\ context.state \in visited)

\* C8: after any sequence of processEvent calls the state is one of the nine
\* enumerated states.
C8_StateEnumerated == context.state \in TriageStates

\* C3 as stated: for every non-empty redFlags argument and every symptoms
\* argument, assessUTISymptoms returns escalate and suitableForTreatment false.
C3_NonEmptyRedFlagsEscalate ==
    (assessOut # NoResult /\ Len(assessIn.redFlags) > 0)
        => (assessOut.recommendation = "escalate" /\ ~assessOut.suitableForTreatment)

\* C3 as amended: for every redFlags argument with an entry that is present,
\* and every symptoms argument, assessUTISymptoms returns escalate and
\* suitableForTreatment false.
C3_PresentRedFlagEscalates ==
    (assessOut # NoResult
        /\ \E i \in 1..Len(assessIn.redFlags) : assessIn.redFlags[i].present)
        => (assessOut.recommendation = "escalate" /\ ~assessOut.suitableForTreatment)

\* C3 witness: an assessment of two present main symptoms and a present red flag.
C3_Witness ==
    /\ assessOut # NoResult
    /\ \E i \in 1..Len(assessIn.redFlags) : assessIn.redFlags[i].present
    /\ HasSymptom(assessIn.symptoms, "burning_pain")
    /\ HasSymptom(assessIn.symptoms, "frequency")

\* The main symptom kinds an argument reports present.
MainPresent(symptoms) ==
    {k \in MainSymptomKinds :
        \E i \in 1..Len(symptoms) : symptoms[i].type = k /\ symptoms[i].present}

\* C4: the threshold rule: with no red flags, assessUTISymptoms returns treat
\* and suitableForTreatment true when at least 2 main symptoms are present,
\* and escalate and suitableForTreatment false when fewer are.
C4_ThresholdRule ==
    (assessOut # NoResult /\ assessIn.redFlags = <<>>)
        => IF Cardinality(MainPresent(assessIn.symptoms)) >= 2
           THEN assessOut.recommendation = "treat" /\ assessOut.suitableForTreatment
           ELSE assessOut.recommendation = "escalate" /\ ~assessOut.suitableForTreatment

\* C4 witness: an assessment, with no red flags, of exactly two present main
\* symptoms.
C4_Witness ==
    /\ assessOut # NoResult
    /\ assessIn.redFlags = <<>>
    /\ Cardinality(MainPresent(assessIn.symptoms)) = 2

HappyState(h) ==
    CASE h = "fresh" -> "INITIAL"
      [] h = "started" -> "IDENTITY_VERIFICATION"
      [] h = "identified" -> "SYMPTOM_ASSESSMENT"
      [] h = "symptomsComplete" -> "RED_FLAG_CHECK"
      [] h = "noRedFlags" -> "FOLLOW_UP_SELECTION"
      [] h = "textMessage" -> "DELIVERY_OPTIONS"
      [] h = "deliveryChosen" -> "CONFIRMATION"
      [] h = "confirmed" -> "COMPLETED"

\* C10: the happy path: a session whose events so far are START_TRIAGE,
\* IDENTITY_VERIFIED, any number of SYMPTOM_RECORDED, SYMPTOMS_COMPLETE,
\* NO_RED_FLAGS, FOLLOW_UP_SELECTED(TEXT_MESSAGE), PICKUP_SELECTED or
\* DELIVERY_SELECTED, CONFIRMED, in that order, is after each of them in the
\* state of that phase, and after CONFIRMED it is COMPLETED, having been in the
\* six states between, with isComplete() true and needsPharmacistReview() false.
C10_HappyPath ==
    /\ happy # "off" => context.state = HappyState(happy)
    /\ happy = "confirmed" =>
          /\ isComplete(context)
          /\ ~needsPharmacistReview(context)
          /\ (NonTerminalStates \ {"INITIAL"}) \subseteq visited

\* C10 witness: the happy path was walked to its end with a symptom recorded on
\* the way.
C10_Witness ==
    /\ happy = "confirmed"
    /\ op = "processEvent"
    /\ lastEvent.type = "CONFIRMED"
    /\ Len(context.symptoms) > 0

\* C11: escalation from the red-flag check: after processEvent was handed
\* RED_FLAG_DETECTED with a red flag f in RED_FLAG_CHECK, the session is
\* ESCALATED, f is the entry added to redFlags, and needsPharmacistReview() and
\* isComplete() are true; after NO_RED_FLAGS in RED_FLAG_CHECK it is in
\* FOLLOW_UP_SELECTION with redFlags as they were.
C11_RedFlagCheck ==
    /\ (op = "processEvent" /\ prev.state = "RED_FLAG_CHECK"
            /\ lastEvent.type = "RED_FLAG_DETECTED"
            /\ lastEvent.data.redFlag # Undefined)
          => /\ context.state = "ESCALATED"
             /\ context.redFlags = Append(prev.redFlags, lastEvent.data.redFlag)
             /\ needsPharmacistReview(context)
             /\ isComplete(context)
    /\ (op = "processEvent" /\ prev.state = "RED_FLAG_CHECK"
            /\ lastEvent.type = "NO_RED_FLAGS")
          => /\ context.state = "FOLLOW_UP_SELECTION"
             /\ context.redFlags = prev.redFlags

\* C11 witness: RED_FLAG_DETECTED{high_temperature} was delivered in
\* RED_FLAG_CHECK.
C11_Witness ==
    /\ op = "processEvent"
    /\ prev.state = "RED_FLAG_CHECK"
    /\ lastEvent.type = "RED_FLAG_DETECTED"
    /\ lastEvent.data.redFlag = "high_temperature"
    /\ context.redFlags = <<"high_temperature">>

\* The state a session is in after each phase of a re-traversal.
RewindState(r) ==
    CASE r = "rewound" -> "FOLLOW_UP_SELECTION"
      [] r = "textMessage" -> "DELIVERY_OPTIONS"
      [] r = "reselected" -> "CONFIRMATION"
      [] r = "completed" -> "COMPLETED"

\* C12: rewind and re-traversal: after CHANGE_REQUESTED towards
\* FOLLOW_UP_SELECTION was delivered in CONFIRMATION the state is
\* FOLLOW_UP_SELECTION, and the events FOLLOW_UP_SELECTED, a delivery selection
\* when TEXT_MESSAGE was chosen, CONFIRMED delivered after it take the session
\* through DELIVERY_OPTIONS (when TEXT_MESSAGE) and CONFIRMATION to COMPLETED.
C12_RewindAndRetraverse ==
    rewind # "none" => context.state = RewindState(rewind)

\* C12 witness: a session that chose a phone call, rewound from CONFIRMATION,
\* chose a text message and a delivery, and was confirmed.
C12_Witness ==
    /\ rewind = "completed"
    /\ context.state = "COMPLETED"
    /\ context.followUpOption = "TEXT_MESSAGE"
    /\ context.deliveryOption # Undefined
    /\ "DELIVERY_OPTIONS" \in visited

\* A list without duplicate entries.
NoDuplicates(list) ==
    \A i, j \in 1..Len(list) : list[i] = list[j] => i = j

\* C13: symptoms and redFlags are sets: in every reachable state of a session
\* neither list of the context holds an entry twice.
C13_SymptomsAndRedFlagsAreSets ==
    NoDuplicates(context.symptoms) /\ NoDuplicates(context.redFlags)

\* C14: the context is immutable once the state is terminal: no operation of
\* the machine (processEvent, updateMetadata, setLanguage) performed in
\* ESCALATED or COMPLETED changes any field of the context.
C14_TerminalImmutable ==
    (op \in {"processEvent", "updateMetadata", "setLanguage"}
        /\ prev.state \in TerminalStates)
        => context = prev

\* C15: getContext() and processEvent return a read-only snapshot: a context
\* object returned earlier reads as its holder last saw it whatever the machine
\* was asked to do since, and a modification of a returned object by its holder
\* leaves the machine's own context as it was.
C15_SnapshotReadOnly ==
    /\ snapshot.held => ReadSnapshot(snapshot, context) = snapshot.seen
    /\ op \in {"snapshotPush", "snapshotAssign"} => context = prev

\* C18: processEvent is total and reports the resulting state: a call with an
\* event, in any reachable state, returns without throwing, and the newState
\* and the context it returns equal getState() and getContext() right after.
C18_TotalAndReportsState ==
    (op = "processEvent" /\ lastEvent # NoEvent)
        => /\ ~returned.threw
           /\ returned.newState = GetState(context)
           /\ returned.context = GetContext(context)

\* C18 witness: processEvent returned from a SYMPTOM_RECORDED that changed the
\* context without changing the state.
C18_Witness ==
    /\ op = "processEvent"
    /\ lastEvent.type = "SYMPTOM_RECORDED"
    /\ prev.state = "SYMPTOM_ASSESSMENT"
    /\ context # prev
    /\ ~returned.threw
    /\ returned.newState = "SYMPTOM_ASSESSMENT"

\* C16: needsPharmacistReview() is true if and only if the state is ESCALATED,
\* or redFlags is non-empty, or the state is CONFIRMATION, in every reachable
\* state.
C16_ReviewIff ==
    needsPharmacistReview(context)
        <=> \/ context.state = "ESCALATED"
            \/ context.redFlags # <<>>
            \/ context.state = "CONFIRMATION"

\* C16 witness: a session in CONFIRMATION with no red flag, which needs review.
C16_Witness ==
    /\ context.state = "CONFIRMATION"
    /\ context.redFlags = <<>>
    /\ needsPharmacistReview(context)

\* The context of a new machine put in a given state.
FreshIn(state) == [NewMachine(<<>>) EXCEPT !.state = state]

\* C17 as stated: getNextQuestion() returns no prompt in ESCALATED and
\* COMPLETED, and in each non-terminal state a prompt that depends on nothing
\* but the state.
C17_PromptInEveryNonTerminalState ==
    /\ context.state \in TerminalStates => getNextQuestion(context) = Null
    /\ context.state \in NonTerminalStates =>
          /\ getNextQuestion(context) # Null
          /\ getNextQuestion(context) = getNextQuestion(FreshIn(context.state))

\* The states getNextQuestion() has a prompt for.
PromptStates == NonTerminalStates \ {"INITIAL"}

\* C17 as amended: getNextQuestion() returns a prompt that depends on nothing
\* but the state in each of the six states from IDENTITY_VERIFICATION to
\* CONFIRMATION, and no prompt in any other state: INITIAL, ESCALATED,
\* COMPLETED, and a state that is none of the nine.
C17_PromptIsFunctionOfState ==
    /\ context.state \notin PromptStates => getNextQuestion(context) = Null
    /\ context.state \in PromptStates =>
          /\ getNextQuestion(context) # Null
          /\ getNextQuestion(context) = getNextQuestion(FreshIn(context.state))

\* C17 witness: a session in CONFIRMATION that differs from a new machine in
\* more than its state, and is asked the prompt of CONFIRMATION.
C17_Witness ==
    /\ context.state = "CONFIRMATION"
    /\ context # FreshIn("CONFIRMATION")
    /\ getNextQuestion(context) = "Is there anything else I can help you with today?"

\* C19: follow-up branching: after FOLLOW_UP_SELECTED with one of the three
\* options was delivered in FOLLOW_UP_SELECTION, the session is in
\* DELIVERY_OPTIONS when the option is TEXT_MESSAGE and in CONFIRMATION when it
\* is PHONE_CALL or IN_PERSON, and followUpOption is the delivered option.
C19_FollowUpBranching ==
    (op = "processEvent" /\ prev.state = "FOLLOW_UP_SELECTION"
        /\ lastEvent.type = "FOLLOW_UP_SELECTED"
        /\ lastEvent.data.option \in FollowUpOptions)
        => /\ context.state = IF lastEvent.data.option = "TEXT_MESSAGE"
                              THEN "DELIVERY_OPTIONS"
                              ELSE "CONFIRMATION"
           /\ context.followUpOption = lastEvent.data.option

\* C19 witness: FOLLOW_UP_SELECTED{IN_PERSON} was delivered in
\* FOLLOW_UP_SELECTION to a session that had chosen otherwise before.
C19_Witness ==
    /\ op = "processEvent"
    /\ prev.state = "FOLLOW_UP_SELECTION"
    /\ prev.followUpOption = "TEXT_MESSAGE"
    /\ lastEvent.type = "FOLLOW_UP_SELECTED"
    /\ lastEvent.data.option = "IN_PERSON"
    /\ context.state = "CONFIRMATION"

\* C20: delivery selection: after DELIVERY_SELECTED with an option was
\* delivered in DELIVERY_OPTIONS the session is in CONFIRMATION with that
\* option as deliveryOption, after PICKUP_SELECTED it is in CONFIRMATION with
\* deliveryOption PICKUP, and in both cases deliveryOption is one of PICKUP,
\* STANDARD, NEXT_DAY, SAME_DAY.
C20_DeliverySelection ==
    /\ (op = "processEvent" /\ prev.state = "DELIVERY_OPTIONS"
            /\ lastEvent.type = "DELIVERY_SELECTED"
            /\ lastEvent.data.option # Undefined)
          => /\ context.state = "CONFIRMATION"
             /\ context.deliveryOption = lastEvent.data.option
             /\ context.deliveryOption \in DeliveryOptions
    /\ (op = "processEvent" /\ prev.state = "DELIVERY_OPTIONS"
            /\ lastEvent.type = "PICKUP_SELECTED")
          => /\ context.state = "CONFIRMATION"
             /\ context.deliveryOption = "PICKUP"

\* C21: the identity step: after IDENTITY_VERIFIED was delivered in
\* IDENTITY_VERIFICATION the session is in SYMPTOM_ASSESSMENT with the event's
\* name, date of birth and patient reference stored; after IDENTITY_FAILED,
\* each time it is delivered there, the state is IDENTITY_VERIFICATION and
\* every context field is what it was.
C21_IdentityStep ==
    /\ (op = "processEvent" /\ prev.state = "IDENTITY_VERIFICATION"
            /\ lastEvent.type = "IDENTITY_VERIFIED")
          => /\ context.state = "SYMPTOM_ASSESSMENT"
             /\ context.patientName = lastEvent.data.name
             /\ context.patientDOB = lastEvent.data.dob
             /\ context.patientId = lastEvent.data.patientId
    /\ (op = "processEvent" /\ prev.state = "IDENTITY_VERIFICATION"
            /\ lastEvent.type = "IDENTITY_FAILED")
          => /\ context.state = "IDENTITY_VERIFICATION"
             /\ context = prev

\* C21 witness: IDENTITY_VERIFIED with name, date of birth and reference was
\* delivered in IDENTITY_VERIFICATION.
C21_Witness ==
    /\ op = "processEvent"
    /\ prev.state = "IDENTITY_VERIFICATION"
    /\ lastEvent.type = "IDENTITY_VERIFIED"
    /\ context.patientName = "Jane Doe"
    /\ context.patientDOB = "1990-01-01"
    /\ context.patientId = "patient-1"

\* C27: isComplete() is true if and only if the state is COMPLETED or
\* ESCALATED, in every reachable state.
C27_CompleteIff ==
    isComplete(context) <=> context.state \in {"COMPLETED", "ESCALATED"}

\* C27 witness: an escalated session, which is complete.
C27_Witness ==
    /\ context.state = "ESCALATED"
    /\ context.redFlags # <<>>
    /\ isComplete(context)

\* C30: no session completes without the safety steps: a session that is
\* COMPLETED has been in IDENTITY_VERIFICATION, SYMPTOM_ASSESSMENT,
\* RED_FLAG_CHECK and CONFIRMATION (which it leaves forward only by
\* IDENTITY_VERIFIED, SYMPTOMS_COMPLETE, NO_RED_FLAGS), and the event that
\* brought it to COMPLETED was CONFIRMED, accepted in CONFIRMATION.
C30_NoCompletionWithoutSafetySteps ==
    /\ context.state = "COMPLETED" =>
          {"IDENTITY_VERIFICATION", "SYMPTOM_ASSESSMENT", "RED_FLAG_CHECK",
           "CONFIRMATION"} \subseteq visited
    /\ (op = "processEvent" /\ context.state = "COMPLETED"
            /\ prev.state # "COMPLETED")
          => (prev.state = "CONFIRMATION" /\ lastEvent.type = "CONFIRMED")

\* C22 as stated: a newly created machine is in INITIAL with empty symptoms
\* and redFlags, and START_TRIAGE is the only event that moves a machine out
\* of INITIAL, taking it to IDENTITY_VERIFICATION.
C22_NewMachineInitial ==
    /\ op = "new" =>
          /\ context.state = "INITIAL"
          /\ context.symptoms = <<>>
          /\ context.redFlags = <<>>
    /\ (op = "processEvent" /\ prev.state = "INITIAL") =>
          context.state = IF lastEvent.type = "START_TRIAGE"
                          THEN "IDENTITY_VERIFICATION"
                          ELSE "INITIAL"

\* C22 as amended: a machine newly created with no initialContext, or with
\* one that gives none of state, symptoms and redFlags, is in INITIAL with
\* empty symptoms and redFlags; a machine created with one that gives any of
\* them has what it gives; and START_TRIAGE is the only event that moves a
\* machine out of INITIAL, taking it to IDENTITY_VERIFICATION.
C22_UnseededMachineInitial ==
    /\ op = "new" =>
          /\ context.state =
                IF "state" \in DOMAIN created THEN created.state ELSE "INITIAL"
          /\ context.symptoms =
                IF "symptoms" \in DOMAIN created THEN created.symptoms ELSE <<>>
          /\ context.redFlags =
                IF "redFlags" \in DOMAIN created THEN created.redFlags ELSE <<>>
    /\ (op = "processEvent" /\ prev.state = "INITIAL") =>
          context.state = IF lastEvent.type = "START_TRIAGE"
                          THEN "IDENTITY_VERIFICATION"
                          ELSE "INITIAL"

\* C22 witness: a machine created with a language only was handed
\* START_TRIAGE in INITIAL.
C22_Witness ==
    /\ created = [language |-> "en-GB"]
    /\ op = "processEvent"
    /\ prev.state = "INITIAL"
    /\ prev.symptoms = <<>>
    /\ lastEvent.type = "START_TRIAGE"
    /\ context.state = "IDENTITY_VERIFICATION"

\* C29: for a machine created with no pre-seeded red flags, in every
\* reachable state a non-empty redFlags implies the state ESCALATED; so
\* needsPharmacistReview() is false in COMPLETED and a session with a recorded
\* red flag is never COMPLETED.
C29_RedFlagsImplyEscalated ==
    "redFlags" \notin DOMAIN created =>
        /\ context.redFlags # <<>> => context.state = "ESCALATED"
        /\ context.state = "COMPLETED" =>
              (~needsPharmacistReview(context) /\ context.redFlags = <<>>)

\* C29 witness: a machine created in SYMPTOM_ASSESSMENT with a symptom and no
\* red flag has recorded a red flag.
C29_Witness ==
    /\ created = [state |-> "SYMPTOM_ASSESSMENT", symptoms |-> <<"frequency">>]
    /\ context.redFlags = <<"high_temperature">>
    /\ context.state = "ESCALATED"

\* C23: sessions are independent: of two machines each created by
\* createTriageStateMachine(), a processEvent, updateMetadata or setLanguage
\* call on one leaves the state and the context of the other (its symptoms,
\* redFlags and metadata included) unchanged, in any interleaving.
C23_SessionsIndependent ==
    [][created = <<>> =>
          /\ op' \in {"processEvent", "updateMetadata", "setLanguage"}
                => other' = other
          /\ op' \in {"otherProcessEvent", "otherUpdateMetadata", "otherSetLanguage"}
                => context' = context]_vars

\* C23 witness: of two machines created by createTriageStateMachine(), the
\* first has recorded a symptom and set its metadata, and the second was just
\* escalated with none of either.
C23_Witness ==
    /\ created = <<>>
    /\ op = "otherProcessEvent"
    /\ other.state = "ESCALATED"
    /\ other.symptoms = <<>>
    /\ context.symptoms = <<"burning_pain">>
    /\ context.metadata.orgId = "org-1"
    /\ other.metadata.orgId = Undefined

\* C24: abandoned sessions get the safe default: when a call has ended
\* (endCall, or the 'disconnected' handler) with the triage machine in a
\* non-terminal state, the call session is marked for the pharmacist
\* (ESCALATED) and is not recorded as a completed triage (status COMPLETED,
\* resolution 'triage_completed').
C24_AbandonedSessionSafeDefault ==
    (op \in {"endCall", "disconnected"} /\ context.state \in NonTerminalStates)
        => /\ callSession.status = "ESCALATED"
           /\ ~(callSession.status = "COMPLETED"
                    /\ callSession.resolution = "triage_completed")

\* C28: a triage attempt for an unsupported condition fails with
\* UnknownConditionError, and no attempt is defaulted to another condition's
\* protocol: the consultation an attempt creates is of the attempt's condition.
C28_UnknownConditionFails ==
    attempt.condition # Undefined =>
        /\ attempt.condition \notin PharmacyFirstConditions =>
              /\ attempt.thrown = "UnknownConditionError"
              /\ attempt.consultation = NoConsultation
        /\ attempt.consultation # NoConsultation =>
              attempt.consultation.type = attempt.condition

\* The kinds of the entries of a list the extractor returned.
Kinds(entries) == {entries[i].type : i \in 1..Len(entries)}

\* The kinds of a list, one for each entry.
KindList(entries) == [i \in 1..Len(entries) |-> entries[i].type]

\* C26: extractor idempotence under union: the results of two calls of
\* extractSymptomsFromTranscript on the same text, merged as sets of symptom
\* kinds and of red-flag kinds, are the result of one call; and in any one
\* result each symptom kind and each red-flag kind appears at most once.
C26_ExtractIdempotentUnderUnion ==
    /\ Len(extraction.results) = 2 =>
          /\ Kinds(extraction.results[1].symptoms \o extraction.results[2].symptoms)
                = Kinds(extraction.results[1].symptoms)
          /\ Kinds(extraction.results[1].redFlags \o extraction.results[2].redFlags)
                = Kinds(extraction.results[1].redFlags)
    /\ \A i \in 1..Len(extraction.results) :
          /\ NoDuplicates(KindList(extraction.results[i].symptoms))
          /\ NoDuplicates(KindList(extraction.results[i].redFlags))

\* C26 witness: two calls on a text with two keywords of burning_pain and a
\* keyword in capitals, which returned one burning_pain entry.
C26_Witness ==
    /\ extraction.transcript = "It BURNS and it stings when I pee"
    /\ Len(extraction.results) = 2
    /\ extraction.results[2].symptoms = <<Present("burning_pain")>>

\* The forward order of the non-terminal states.
ForwardOrder ==
    <<"INITIAL", "IDENTITY_VERIFICATION", "SYMPTOM_ASSESSMENT", "RED_FLAG_CHECK",
      "FOLLOW_UP_SELECTION", "DELIVERY_OPTIONS", "CONFIRMATION">>

\* The place of a state in the forward order, the terminal states last.
Rank(state) ==
    IF state \in TerminalStates THEN Len(ForwardOrder) + 1
    ELSE CHOOSE i \in 1..Len(ForwardOrder) : ForwardOrder[i] = state

\* C31: in a session that gets no CHANGE_REQUESTED event no processEvent call
\* returns to an earlier state of the order INITIAL, IDENTITY_VERIFICATION,
\* SYMPTOM_ASSESSMENT, RED_FLAG_CHECK, FOLLOW_UP_SELECTION, DELIVERY_OPTIONS,
\* CONFIRMATION, terminal, and the session makes at most seven state changes.
C31_ForwardOnly ==
    /\ op = "processEvent" => Rank(prev.state) <= Rank(context.state)
    /\ changes <= Len(ForwardOrder)

\* C31 witness: a session completed in seven state changes.
C31_Witness ==
    /\ context.state = "COMPLETED"
    /\ changes = Len(ForwardOrder)

\* C32: the delivery choice is consistent with the follow-up choice: in every
\* reachable state, also after a CHANGE_REQUESTED rewind and a different
\* follow-up selection, deliveryOption is set only if followUpOption is
\* TEXT_MESSAGE.
C32_DeliveryConsistent ==
    context.deliveryOption # Undefined => context.followUpOption = "TEXT_MESSAGE"

\* C33: ambiguity never yields treat: for every input of assessUTISymptoms,
\* suitableForTreatment is true if and only if the recommendation is treat,
\* which it is if and only if no supplied red flag is present and at least two
\* main symptoms are present; the result's redFlags list is non-empty only
\* when the recommendation is escalate, and holds exactly the supplied red
\* flags that are present.
C33_TreatOnlyWhenUnambiguous ==
    assessOut # NoResult =>
        /\ assessOut.suitableForTreatment <=> assessOut.recommendation = "treat"
        /\ assessOut.recommendation = "treat"
              <=> /\ \A i \in 1..Len(assessIn.redFlags) : ~assessIn.redFlags[i].present
                  /\ Cardinality(MainPresent(assessIn.symptoms)) >= 2
        /\ assessOut.redFlags # <<>> => assessOut.recommendation = "escalate"
        /\ assessOut.redFlags = SelectSeq(assessIn.redFlags, LAMBDA rf : rf.present)

\* C33 witness: an assessment of two present main symptoms with two red flags
\* supplied, one of them present.
C33_Witness ==
    /\ assessOut # NoResult
    /\ Cardinality(MainPresent(assessIn.symptoms)) = 2
    /\ Len(assessIn.redFlags) = 2
    /\ assessIn.redFlags[1].present
    /\ ~assessIn.redFlags[2].present

\* The present entries of a main kind in a symptoms argument, as positions.
MainEntries(symptoms) ==
    {i \in 1..Len(symptoms) :
        symptoms[i].present /\ symptoms[i].type \in MainSymptomKinds}

\* C34: assessUTISymptoms counts distinct main symptom kinds: each of
\* burning_pain, frequency, cloudy_urine and lower_abdominal_pain counts at
\* most once however many entries of it are supplied, entries with present
\* false and general_malaise count zero (the count a treat result reports is
\* the number of main kinds present), so entries of a single main kind, however
\* many, never reach the threshold of 2.
C34_CountsDistinctKinds ==
    (assessOut # NoResult
        /\ \A i \in 1..Len(assessIn.redFlags) : ~assessIn.redFlags[i].present)
        => LET kinds == {assessIn.symptoms[i].type : i \in MainEntries(assessIn.symptoms)}
           IN  /\ assessOut.recommendation = "treat"
                     => assessOut.reasoning
                            = TreatResult(assessIn.symptoms, Cardinality(kinds)).reasoning
               /\ Cardinality(kinds) <= 1 => assessOut.recommendation = "escalate"

\* C34 witness: an assessment, with no red flags, of two present entries of
\* one main symptom.
C34_Witness ==
    /\ assessOut # NoResult
    /\ assessIn.redFlags = <<>>
    /\ assessIn.symptoms = <<[type |-> "burning_pain", present |-> TRUE],
                             [type |-> "burning_pain", present |-> TRUE]>>

\* C35: processUTITriage creates the consultation with documentationStatus
\* DRAFT exactly when the assessment's recommendation is escalate and
\* PENDING_APPROVAL otherwise, and returns needsApproval true exactly when the
\* recommendation is not escalate; a consultation with a present red flag is
\* never created as PENDING_APPROVAL.
C35_DraftIffEscalate ==
    attempt # NoAttempt =>
        /\ attempt.consultation.documentationStatus
              = IF assessOut.recommendation = "escalate" THEN "DRAFT"
                ELSE "PENDING_APPROVAL"
        /\ attempt.needsApproval <=> assessOut.recommendation # "escalate"
        /\ (\E i \in 1..Len(assessIn.redFlags) : assessIn.redFlags[i].present)
              => attempt.consultation.documentationStatus # "PENDING_APPROVAL"

\* C35 witness: a consultation created for two present main symptoms and a
\* present red flag.
C35_Witness ==
    /\ attempt # NoAttempt
    /\ Cardinality(MainPresent(assessIn.symptoms)) = 2
    /\ \E i \in 1..Len(assessIn.redFlags) : assessIn.redFlags[i].present
    /\ attempt.consultation.documentationStatus = "DRAFT"

\* C36: the voice agent can drive a triage to its end: for a freshly
\* initialized agent (triage machine in INITIAL) there is a sequence of
\* transcripts after whose processing by processTriageLogic the triage machine
\* has left INITIAL and is in a terminal state.
C36_AgentDrivesTriage ==
    op = "new" =>
        \E texts \in SeqUpTo(Transcripts, MaxTranscript) :
            AgentRun(context, texts).state \in TerminalStates

C39_ApprovalAudited ==
    (approval.pc = "done" /\ approval.documentationStatus \in {"APPROVED", "REJECTED"})
        => \E i \in 1..Len(approval.auditLog) :
              /\ approval.auditLog[i].resourceType = "Consultation"
              /\ approval.auditLog[i].resourceId = approval.consultationId

=============================================================================
